---- MODULE Spec2Model ----
(***************************************************************************)
(* LLMService (backend/src/services/llmService.ts): the content-generation *)
(* layer.  Five generators share one Gateway primitive, callLLM.  Each     *)
(* generator builds a prompt, awaits callLLM, tries JSON.parse on the      *)
(* reply, and on a parse failure returns the value of its fallback method. *)
(*                                                                         *)
(* JavaScript values are tagged records, so that values of different       *)
(* JavaScript types can be compared.  A string is either atomic (field s)  *)
(* or a text, a sequence of lexical tokens (field toks), which is the form *)
(* JSON.parse reads.  An object is the sequence of its <<key, value>>      *)
(* pairs in insertion order.                                               *)
(***************************************************************************)
EXTENDS Integers, Sequences, FiniteSets, TLC

VARIABLES
  env,                       \* process.env as read by the constructor
  apiUrl, apiKey, modelName, \* the private fields of the LLMService instance
  pc,                        \* where each generator call stands
  gen, args,                 \* the generator called and its arguments
  prompt,                    \* the local `prompt` of the generator
  net,                       \* the call's axios.post: the request and how it settled
  llm,                       \* how `await this.callLLM(prompt)` settled
  outcome,                   \* what the generator's promise settled to
  posts, parses, fallbacks   \* per call: POSTs sent, JSON.parse calls, fallback calls

vars == <<env, apiUrl, apiKey, modelName, pc, gen, args, prompt, net, llm, outcome,
          posts, parses, fallbacks>>

config == <<apiUrl, apiKey, modelName>>

-----------------------------------------------------------------------------
(* Bounds of the model.                                                    *)

\* concurrent generator calls on the one exported LLMService instance
NumCalls == 2
\* the largest `weeks` argument drawn besides the default and 52
MaxWeeks == 3
\* the longest Gateway reply text (in tokens) enumerated exhaustively
MaxTextLen == 3

-----------------------------------------------------------------------------
(* JavaScript values.                                                      *)

Undefined == [t |-> "undefined"]
Null == [t |-> "null"]
Num(n) == [t |-> "number", n |-> n]
Str(s) == [t |-> "string", s |-> s]
Text(toks) == [t |-> "string", toks |-> toks]
Arr(a) == [t |-> "array", a |-> a]
Obj(p) == [t |-> "object", p |-> p]

IsText(v) == v.t = "string" /\ "toks" \in DOMAIN v

Min(a, b) == IF a < b THEN a ELSE b

Digit == <<"0", "1", "2", "3", "4", "5", "6", "7", "8", "9">>

RECURSIVE NatToString(_)
NatToString(n) ==
  IF n < 10 THEN Digit[n + 1]
  ELSE NatToString(n \div 10) \o Digit[(n % 10) + 1]

\* String(n) / `${n}` for an integer n
NumToString(n) == IF n < 0 THEN "-" \o NatToString(-n) ELSE NatToString(n)

RECURSIVE Join(_)
Join(chars) == IF chars = <<>> THEN "" ELSE Head(chars) \o Join(Tail(chars))

\* the pairs of an object with key k set to v: a key already present keeps
\* its position and takes the new value
SetKey(p, k, v) ==
  IF \E i \in 1..Len(p) : p[i][1] = k
  THEN [i \in 1..Len(p) |-> IF p[i][1] = k THEN <<k, v>> ELSE p[i]]
  ELSE Append(p, <<k, v>>)

HasKey(o, k) == o.t = "object" /\ \E i \in 1..Len(o.p) : o.p[i][1] = k

TypeError == [t |-> "throw", err |-> "TypeError"]

IsThrow(v) == v.t = "throw"

\* v[k] / v.k for a property name k: reading a property of undefined or null
\* throws a TypeError, a missing property reads as undefined
GetProp(v, k) ==
  CASE IsThrow(v) -> v
    [] v.t \in {"undefined", "null"} -> TypeError
    [] v.t = "object" ->
         IF HasKey(v, k)
         THEN v.p[CHOOSE i \in 1..Len(v.p) : v.p[i][1] = k][2]
         ELSE Undefined
    [] OTHER -> Undefined

\* v[i] for an index i (0-based)
GetIndex(v, i) ==
  CASE IsThrow(v) -> v
    [] v.t \in {"undefined", "null"} -> TypeError
    [] v.t = "array" -> IF i < Len(v.a) THEN v.a[i + 1] ELSE Undefined
    [] v.t = "object" -> GetProp(v, NumToString(i))
    [] OTHER -> Undefined

-----------------------------------------------------------------------------
(* JSON.parse.  The text is a sequence of tokens: the punctuation          *)
(* [ ] { } , : , the literal null, decimal numbers, quoted strings, and    *)
(* anything else (prose, the word undefined, ...), which no JSON value     *)
(* starts with.                                                            *)

MaxNumLit == 12

StringPool ==
  {"id", "text", "options", "correctAnswer", "explanation", "week", "topics",
   "modules", "weeklyRoadmap", "title", "q", "A", "B", "C", "D", "topic-9"}

Quote(s) == "\"" \o s \o "\""

IsNumTok(tok) == \E n \in 0..MaxNumLit : NumToString(n) = tok
NumOf(tok) == CHOOSE n \in 0..MaxNumLit : NumToString(n) = tok
IsStrTok(tok) == \E s \in StringPool : Quote(s) = tok
Unquote(tok) == CHOOSE s \in StringPool : Quote(s) = tok

ParseFail == [ok |-> FALSE, v |-> Undefined, rest |-> <<>>]
ParseOk(v, rest) == [ok |-> TRUE, v |-> v, rest |-> rest]

RECURSIVE ParseValue(_)
RECURSIVE ParseElements(_, _)
RECURSIVE ParseMembers(_, _)

ParseValue(toks) ==
  IF toks = <<>> THEN ParseFail
  ELSE LET h == Head(toks)
           r == Tail(toks)
       IN  CASE h = "null" -> ParseOk(Null, r)
             [] IsNumTok(h) -> ParseOk(Num(NumOf(h)), r)
             [] IsStrTok(h) -> ParseOk(Str(Unquote(h)), r)
             [] h = "[" ->
                  IF r # <<>> /\ Head(r) = "]"
                  THEN ParseOk(Arr(<<>>), Tail(r))
                  ELSE ParseElements(r, <<>>)
             [] h = "{" ->
                  IF r # <<>> /\ Head(r) = "}"
                  THEN ParseOk(Obj(<<>>), Tail(r))
                  ELSE ParseMembers(r, <<>>)
             [] OTHER -> ParseFail

\* the elements of an array after "[" (acc: the elements read so far)
ParseElements(toks, acc) ==
  LET e == ParseValue(toks)
  IN  IF ~e.ok \/ e.rest = <<>> THEN ParseFail
      ELSE CASE Head(e.rest) = "," -> ParseElements(Tail(e.rest), Append(acc, e.v))
             [] Head(e.rest) = "]" -> ParseOk(Arr(Append(acc, e.v)), Tail(e.rest))
             [] OTHER -> ParseFail

\* the members of an object after "{" (acc: the pairs read so far)
ParseMembers(toks, acc) ==
  IF Len(toks) < 2 \/ ~IsStrTok(toks[1]) \/ toks[2] # ":" THEN ParseFail
  ELSE LET k == Unquote(toks[1])
           m == ParseValue(Tail(Tail(toks)))
       IN  IF ~m.ok \/ m.rest = <<>> THEN ParseFail
           ELSE CASE Head(m.rest) = "," ->
                       ParseMembers(Tail(m.rest), SetKey(acc, k, m.v))
                  [] Head(m.rest) = "}" ->
                       ParseOk(Obj(SetKey(acc, k, m.v)), Tail(m.rest))
                  [] OTHER -> ParseFail

\* String(v): the text JSON.parse reads when handed the value v
ToText(v) ==
  CASE IsText(v) -> v.toks
    [] v.t = "undefined" -> <<"undefined">>
    [] v.t = "null" -> <<"null">>
    [] v.t = "number" -> <<NumToString(v.n)>>
    [] OTHER -> <<"[object]">>

\* JSON.parse(v): the parsed value, or a SyntaxError
JSONParse(v) ==
  LET r == ParseValue(ToText(v))
  IN  IF r.ok /\ r.rest = <<>>
      THEN [threw |-> FALSE, v |-> r.v]
      ELSE [threw |-> TRUE, v |-> Undefined]

\* the JSON text of a value (how a Gateway writes one)
RECURSIVE Stringify(_)
RECURSIVE StringifyAll(_, _)
Stringify(v) ==
  CASE v.t = "null" -> <<"null">>
    [] v.t = "number" -> <<NumToString(v.n)>>
    [] v.t = "string" -> <<Quote(v.s)>>
    [] v.t = "array" -> <<"[">> \o StringifyAll(v.a, FALSE) \o <<"]">>
    [] v.t = "object" -> <<"{">> \o StringifyAll(v.p, TRUE) \o <<"}">>

StringifyAll(items, keyed) ==
  IF items = <<>> THEN <<>>
  ELSE LET one == IF keyed
                  THEN <<Quote(Head(items)[1]), ":">> \o Stringify(Head(items)[2])
                  ELSE Stringify(Head(items))
       IN  IF Len(items) = 1 THEN one
           ELSE one \o <<",">> \o StringifyAll(Tail(items), keyed)

-----------------------------------------------------------------------------
(* Gateway configuration (constructor, lines 17-28).                       *)

DefaultApiUrl == "https://openrouter.ai/api/v1/chat/completions"
DefaultModelName == "gpt-3.5-turbo"

\* process.env at construction: a variable is unset (undefined) or a string
Envs ==
  { [AI_MODEL_API_URL |-> Undefined, AI_MODEL_API_KEY |-> Undefined,
     AI_MODEL_NAME |-> Undefined],
    [AI_MODEL_API_URL |-> Str("https://llm.internal/v1"),
     AI_MODEL_API_KEY |-> Str("sk-1"), AI_MODEL_NAME |-> Str("")] }

\* process.env.X || fallback: an unset or empty variable takes the default
EnvOr(v, default) == IF v.t = "undefined" \/ v.s = "" THEN default ELSE v.s

-----------------------------------------------------------------------------
(* Prompts (the template literals of the five generators).  The fixed      *)
(* schema instructions of a template are abridged to their first words;    *)
(* every interpolation is kept.                                            *)

Generators ==
  {"generateCurriculum", "generateLesson", "generateQuiz", "generateResources",
   "generateProjects"}

DefaultWeeks == 12
SubstringLimit == 500

\* the `weeks` parameter after its default (weeks: number = 12)
WeeksOf(w) == IF w = Undefined THEN DefaultWeeks ELSE w.n

\* content.substring(0, 500), content a sequence of characters
Substring(content) == SubSeq(content, 1, Min(Len(content), SubstringLimit))

CurriculumPrompt(skill, level, timePerWeek, weeks) ==
  "Create a comprehensive " \o NumToString(weeks) \o "-week curriculum for learning \""
    \o skill \o "\" at " \o level \o " level with " \o NumToString(timePerWeek)
    \o " hours per week. Return a JSON object with: 1. \"modules\": ... "
    \o "2. \"weeklyRoadmap\": Array of exactly " \o NumToString(weeks)
    \o " weekly plans with: - week: number (1 to " \o NumToString(weeks) \o ") ... "
    \o "IMPORTANT: Create exactly " \o NumToString(weeks)
    \o " weeks, no more, no less. Distribute all topics across these "
    \o NumToString(weeks) \o " weeks. ..."

LessonPrompt(subtopicTitle, skill, level) ==
  "Create a lesson for \"" \o subtopicTitle \o "\" in " \o skill \o " for " \o level
    \o " level. Return JSON with: ..."

QuizPrompt(lessonTitle, content) ==
  "Create 5 multiple choice questions for a lesson titled \"" \o lessonTitle
    \o "\". Return JSON array of questions, each with: ... "
    \o "Base questions on this content: " \o Join(Substring(content)) \o "..."

ResourcesPrompt(topicTitle, skill, level) ==
  "Suggest 8-10 learning resources for \"" \o topicTitle \o "\" in " \o skill
    \o " for " \o level \o " level. Return JSON array ..."

ProjectsPrompt(moduleTitle, skill, level) ==
  "Create 2-3 project ideas for \"" \o moduleTitle \o "\" in " \o skill \o " for "
    \o level \o " level. Return JSON array of projects, each with: ..."

\* a prompt that carries the number of calls in progress
BuildPromptNumbered(g, a) ==
  "Request " \o NumToString(Cardinality({c \in DOMAIN pc : pc[c] # "idle"})) \o ": "
    \o (CASE g = "generateCurriculum" ->
               CurriculumPrompt(a.skill, a.level, a.timePerWeek, WeeksOf(a.weeks))
          [] g = "generateLesson" -> LessonPrompt(a.subtopicTitle, a.skill, a.level)
          [] g = "generateQuiz" -> QuizPrompt(a.lessonTitle, a.content)
          [] g = "generateResources" ->
               ResourcesPrompt(a.topicTitle, a.skill, a.level)
          [] g = "generateProjects" -> ProjectsPrompt(a.moduleTitle, a.skill, a.level))

BuildPrompt(g, a) ==
  CASE g = "generateCurriculum" ->
         CurriculumPrompt(a.skill, a.level, a.timePerWeek, WeeksOf(a.weeks))
    [] g = "generateLesson" -> LessonPrompt(a.subtopicTitle, a.skill, a.level)
    [] g = "generateQuiz" -> QuizPrompt(a.lessonTitle, a.content)
    [] g = "generateResources" -> ResourcesPrompt(a.topicTitle, a.skill, a.level)
    [] g = "generateProjects" -> ProjectsPrompt(a.moduleTitle, a.skill, a.level)

-----------------------------------------------------------------------------
(* Fallback methods (lines 176-252).                                       *)

WeeklyPlan(i, skill) ==
  Obj(<< <<"week", Num(i)>>,
         <<"topics", Arr(<<Str("topic-1")>>)>>,
         <<"estimatedHours", Num(5)>>,
         <<"goals", Arr(<<Str("Week " \o NumToString(i) \o ": Learn " \o skill
                              \o " concepts")>>)>> >>)

\* the loop with its bound off by one (i < weeks)
RECURSIVE RoadmapLoopExclusive(_, _, _, _)
RoadmapLoopExclusive(i, weeks, skill, weeklyRoadmap) ==
  IF i < weeks
  THEN RoadmapLoopExclusive(i + 1, weeks, skill,
                            Append(weeklyRoadmap, WeeklyPlan(i, skill)))
  ELSE weeklyRoadmap

\* for (let i = 1; i <= weeks; i++) weeklyRoadmap.push(...)
RECURSIVE RoadmapLoop(_, _, _, _)
RoadmapLoop(i, weeks, skill, weeklyRoadmap) ==
  IF i <= weeks
  THEN RoadmapLoop(i + 1, weeks, skill, Append(weeklyRoadmap, WeeklyPlan(i, skill)))
  ELSE weeklyRoadmap

FallbackTopic(skill, level) ==
  Obj(<< <<"id", Str("topic-1")>>,
         <<"title", Str("Introduction")>>,
         <<"description", Str("Getting started with " \o skill)>>,
         <<"difficulty", Str(level)>>,
         <<"subtopics",
           Arr(<< Obj(<< <<"id", Str("subtopic-1")>>,
                         <<"title", Str("Overview")>>,
                         <<"description", Str("What is " \o skill \o "?")>>,
                         <<"estimatedHours", Num(2)>> >>) >>)>> >>)

getFallbackCurriculum(skill, level, weeks) ==
  Obj(<< <<"modules",
           Arr(<< Obj(<< <<"id", Str("module-1")>>,
                         <<"title", Str(skill \o " Fundamentals")>>,
                         <<"description", Str("Core concepts and basics of " \o skill)>>,
                         <<"estimatedWeeks", Num(weeks)>>,
                         <<"topics", Arr(<<FallbackTopic(skill, level)>>)>> >>) >>)>>,
         <<"weeklyRoadmap", Arr(RoadmapLoop(1, weeks, skill, <<>>))>> >>)

getFallbackLesson(title) ==
  Obj(<< <<"title", Str(title)>>,
         <<"objective", Str("Learn about " \o title)>>,
         <<"content", Str("This lesson covers the fundamentals of " \o title
                            \o ". You'll learn key concepts and practical applications.")>>,
         <<"examples", Arr(<< Str("Example 1: Basic " \o title \o " usage"),
                              Str("Example 2: Advanced " \o title \o " techniques") >>)>>,
         <<"practiceTask", Str("Practice implementing " \o title \o " concepts")>> >>)

FallbackOptions == <<Str("Option A"), Str("Option B"), Str("Option C"), Str("Option D")>>

getFallbackQuiz(title) ==
  Arr(<< Obj(<< <<"id", Str("q1")>>,
                <<"text", Str("What is the main purpose of " \o title \o "?")>>,
                <<"options", Arr(FallbackOptions)>>,
                <<"correctAnswer", Num(0)>>,
                <<"explanation", Str("This is the correct answer because...")>> >>) >>)

getFallbackResources(topic) ==
  Arr(<< Obj(<< <<"topicId", Str("topic-1")>>,
                <<"type", Str("article")>>,
                <<"title", Str(topic \o " Guide")>>,
                <<"level", Str("beginner")>>,
                <<"reason", Str("Comprehensive introduction")>>,
                <<"description", Str("Learn " \o topic \o " fundamentals")>>,
                <<"url", Str("#")>> >>) >>)

getFallbackProjects(module) ==
  Arr(<< Obj(<< <<"title", Str(module \o " Project")>>,
                <<"description", Str("Build a practical project using " \o module
                                       \o " concepts")>>,
                <<"requirements", Arr(<<Str("Feature 1"), Str("Feature 2")>>)>>,
                <<"techStack", Arr(<<Str("Technology 1"), Str("Technology 2")>>)>>,
                <<"skillsDemonstrated", Arr(<<Str("Skill 1"), Str("Skill 2")>>)>>,
                <<"difficulty", Str("beginner")>> >>) >>)

\* the curriculum fallback called without `weeks` (its own default applies)
FallbackWithoutWeeks(g, a) ==
  CASE g = "generateCurriculum" ->
         getFallbackCurriculum(a.skill, a.level, DefaultWeeks)
    [] g = "generateLesson" -> getFallbackLesson(a.subtopicTitle)
    [] g = "generateQuiz" -> getFallbackQuiz(a.lessonTitle)
    [] g = "generateResources" -> getFallbackResources(a.topicTitle)
    [] g = "generateProjects" -> getFallbackProjects(a.moduleTitle)

\* the fallback call in each generator's catch block
Fallback(g, a) ==
  CASE g = "generateCurriculum" ->
         getFallbackCurriculum(a.skill, a.level, WeeksOf(a.weeks))
    [] g = "generateLesson" -> getFallbackLesson(a.subtopicTitle)
    [] g = "generateQuiz" -> getFallbackQuiz(a.lessonTitle)
    [] g = "generateResources" -> getFallbackResources(a.topicTitle)
    [] g = "generateProjects" -> getFallbackProjects(a.moduleTitle)

-----------------------------------------------------------------------------
(* callLLM (lines 31-55).                                                  *)

ErrorObj(message) == [t |-> "error", message |-> message]
GenerationUnavailable == ErrorObj("Failed to generate content")

NetworkError == [kind |-> "error", status |-> 0, data |-> Undefined]
Response(status, data) == [kind |-> "response", status |-> status, data |-> data]

\* axios.post rejects on a transport error and, by its default validateStatus,
\* on every status outside 200..299
AxiosRejects(http) ==
  http.kind = "error" \/ ~(http.status >= 200 /\ http.status < 300)

\* response.data.choices[0].message.content
ContentAt(data) ==
  GetProp(GetProp(GetIndex(GetProp(data, "choices"), 0), "message"), "content")

\* try { ...; return response.data.choices[0].message.content }
\* catch (error) { throw new Error('Failed to generate content') }
callLLMSwallows(http) ==
  IF AxiosRejects(http) \/ IsThrow(ContentAt(http.data))
  THEN [threw |-> FALSE, v |-> Text(<<>>)]
  ELSE [threw |-> FALSE, v |-> ContentAt(http.data)]

callLLM(http) ==
  IF AxiosRejects(http) \/ IsThrow(ContentAt(http.data))
  THEN [threw |-> TRUE, v |-> GenerationUnavailable]
  ELSE [threw |-> FALSE, v |-> ContentAt(http.data)]

\* the body and headers of the POST (lines 33-49)
Request(p) ==
  [ url |-> apiUrl,
    body |-> [ model |-> modelName,
               messages |-> <<[role |-> "user", content |-> p]>>,
               max_tokens |-> 2000,
               temperature |-> "0.7" ],
    headers |-> [ Authorization |-> "Bearer " \o apiKey,
                  ContentType |-> "application/json",
                  HTTPReferer |-> "http://localhost:3009",
                  XTitle |-> "SkillFoundry" ] ]

-----------------------------------------------------------------------------
(* The generators after `await this.callLLM(prompt)` (lines 82-88, 103-108, *)
(* 123-128, 147-152, 168-173): a rejection of callLLM leaves the generator *)
(* (the await stands outside the try); otherwise                           *)
(*   try { return JSON.parse(response) } catch { return fallback }         *)

GeneratorResultNoCatch(g, a, l) ==
  IF l.threw
  THEN [kind |-> "threw", v |-> l.v, parses |-> 0, fallbacks |-> 0]
  ELSE IF JSONParse(l.v).threw
       THEN [kind |-> "threw", v |-> ErrorObj("SyntaxError"), parses |-> 1,
             fallbacks |-> 0]
       ELSE [kind |-> "returned", v |-> JSONParse(l.v).v, parses |-> 1,
             fallbacks |-> 0]

GeneratorResultAlwaysFallback(g, a, l) ==
  IF l.threw
  THEN [kind |-> "threw", v |-> l.v, parses |-> 0, fallbacks |-> 0]
  ELSE [kind |-> "returned", v |-> Fallback(g, a), parses |-> 1, fallbacks |-> 1]

GeneratorResult(g, a, l) ==
  IF l.threw
  THEN [kind |-> "threw", v |-> l.v, parses |-> 0, fallbacks |-> 0]
  ELSE IF JSONParse(l.v).threw
       THEN [kind |-> "returned", v |-> Fallback(g, a), parses |-> 1,
             fallbacks |-> 1]
       ELSE [kind |-> "returned", v |-> JSONParse(l.v).v, parses |-> 1,
             fallbacks |-> 0]

-----------------------------------------------------------------------------
(* Inputs: the arguments of the calls and the replies of the Gateway.      *)

Calls == 1..NumCalls

Skills == {"Python", "Go"}
Levels == {"beginner", "expert"}
Titles == {"Loops", "Closures"}
Contents == {<<>>, <<"f", "o", "r">>}
WeeksArgs == {Undefined} \cup {Num(n) : n \in (-1..MaxWeeks) \cup {52}}

ArgsOf(g) ==
  CASE g = "generateCurriculum" ->
         [skill : Skills, level : Levels, timePerWeek : {5}, weeks : WeeksArgs]
    [] g = "generateLesson" ->
         [subtopicTitle : Titles, skill : {"Python"}, level : Levels]
    [] g = "generateQuiz" -> [lessonTitle : Titles, content : Contents]
    [] g = "generateResources" ->
         [topicTitle : Titles, skill : {"Python"}, level : Levels]
    [] g = "generateProjects" ->
         [moduleTitle : Titles, skill : {"Python"}, level : Levels]

\* a chat-completion body carrying `content` at choices[0].message.content
Completion(content) ==
  Obj(<< <<"choices",
           Arr(<< Obj(<< <<"message", Obj(<< <<"content", content>> >>)>> >>) >>)>> >>)

Question(i) ==
  Obj(<< <<"id", Str("q")>>,
         <<"text", Str("text")>>,
         <<"options", Arr(<<Str("A"), Str("B"), Str("C"), Str("D")>>)>>,
         <<"correctAnswer", Num(i % 4)>>,
         <<"explanation", Str("explanation")>> >>)

FiveQuestions == Arr([i \in 1..5 |-> Question(i)])

\* a curriculum of one week, whatever the number of weeks asked for, whose
\* week refers to a topic no module holds
OneWeekCurriculum ==
  Obj(<< <<"modules", Arr(<<>>)>>,
         <<"weeklyRoadmap",
           Arr(<< Obj(<< <<"week", Num(1)>>,
                         <<"topics", Arr(<<Str("topic-9")>>)>> >>) >>)>> >>)

SampleValues ==
  {FiveQuestions, OneWeekCurriculum, Obj(<< <<"title", Num(7)>> >>), Str("q"), Num(5)}

TextAlphabet == {"[", "]", ",", "null", "Sure"}

RECURSIVE TextsUpTo(_)
TextsUpTo(n) ==
  IF n = 0 THEN {<<>>}
  ELSE TextsUpTo(n - 1)
         \cup {Append(t, tok) : t \in {u \in TextsUpTo(n - 1) : Len(u) = n - 1},
                               tok \in TextAlphabet}

Texts == TextsUpTo(MaxTextLen) \cup {Stringify(v) : v \in SampleValues}

\* replies that are no chat completion: without choices, with no first
\* choice, with a choice that has no message, with a message that has no
\* content or a null one
Malformed ==
  { Undefined, Str(""), Obj(<<>>),
    Obj(<< <<"choices", Arr(<<>>)>> >>),
    Obj(<< <<"choices", Arr(<<Obj(<<>>)>>)>> >>),
    Obj(<< <<"choices", Arr(<<Obj(<< <<"message", Obj(<<>>)>> >>)>>)>> >>),
    Completion(Null) }

HttpReplies ==
  {NetworkError}
    \cup {Response(st, Completion(Text(<<"[", "]">>))) : st \in {201, 404, 500}}
    \cup {Response(200, d) : d \in Malformed}
    \cup {Response(200, Completion(Text(t))) : t \in Texts}

\* the inputs of the runs with concurrent calls
FewArgsOf(g) ==
  CASE g = "generateCurriculum" ->
         [skill : {"Python"}, level : {"beginner"}, timePerWeek : {5},
          weeks : {Num(2)}]
    [] g = "generateLesson" ->
         [subtopicTitle : {"Loops"}, skill : {"Python"}, level : {"beginner"}]
    [] g = "generateQuiz" -> [lessonTitle : {"Loops"}, content : {<<"f", "o", "r">>}]
    [] g = "generateResources" ->
         [topicTitle : {"Loops"}, skill : {"Python"}, level : {"beginner"}]
    [] g = "generateProjects" ->
         [moduleTitle : {"Loops"}, skill : {"Python"}, level : {"beginner"}]

FewHttpReplies ==
  { NetworkError,
    Response(200, Completion(Text(<<"Sure">>))),
    Response(200, Completion(Text(<<"[", "null", "]">>))) }

\* the environment of the runs with one caller: nothing set
FewEnvs == {e \in Envs : e.AI_MODEL_API_KEY = Undefined}

-----------------------------------------------------------------------------
(* The state machine.                                                      *)

NoRequest == [state |-> "none"]
Unsettled == [state |-> "pending"]
NoOutcome == [kind |-> "none"]
NoArgs == [none |-> TRUE]

\* new LLMService() (lines 17-28, 255); no call has been made
InitFor(envs) ==
  /\ env \in envs
  /\ apiUrl = EnvOr(env.AI_MODEL_API_URL, DefaultApiUrl)
  /\ apiKey = EnvOr(env.AI_MODEL_API_KEY, "")
  /\ modelName = EnvOr(env.AI_MODEL_NAME, DefaultModelName)
  /\ pc = [c \in Calls |-> "idle"]
  /\ gen = [c \in Calls |-> "none"]
  /\ args = [c \in Calls |-> NoArgs]
  /\ prompt = [c \in Calls |-> ""]
  /\ net = [c \in Calls |-> NoRequest]
  /\ llm = [c \in Calls |-> Unsettled]
  /\ outcome = [c \in Calls |-> NoOutcome]
  /\ posts = [c \in Calls |-> 0]
  /\ parses = [c \in Calls |-> 0]
  /\ fallbacks = [c \in Calls |-> 0]

Init == InitFor(FewEnvs)

\* a caller calls generator g with arguments a: the prompt is built and
\* callLLM sends the POST (up to the await of line 33)
Invoke(c, g, a) ==
  /\ pc[c] = "idle"
  /\ pc' = [pc EXCEPT ![c] = "awaitPost"]
  /\ gen' = [gen EXCEPT ![c] = g]
  /\ args' = [args EXCEPT ![c] = a]
  /\ prompt' = [prompt EXCEPT ![c] = BuildPrompt(g, a)]
  /\ net' = [net EXCEPT ![c] = [state |-> "pending", req |-> Request(BuildPrompt(g, a))]]
  /\ posts' = [posts EXCEPT ![c] = @ + 1]
  /\ UNCHANGED <<env, config, llm, outcome, parses, fallbacks>>

\* the Gateway (or the transport) settles the POST of call c
GatewaySettles(c, http) ==
  /\ pc[c] = "awaitPost"
  /\ net[c].state = "pending"
  /\ net' = [net EXCEPT ![c] = [state |-> "settled", req |-> net[c].req, http |-> http]]
  /\ UNCHANGED <<env, config, pc, gen, args, prompt, llm, outcome, posts, parses,
                 fallbacks>>

\* what the `await axios.post(...)` of call c resumes with
AwaitedPostShared(c) == net[CHOOSE d \in Calls : net[d].state = "settled"].http

AwaitedPost(c) == net[c].http

\* callLLM posting again after a failed POST
CallLLMResumesRetrying(c) ==
  /\ pc[c] = "awaitPost"
  /\ net[c].state = "settled"
  /\ IF callLLM(AwaitedPost(c)).threw /\ posts[c] < 2
     THEN /\ net' = [net EXCEPT ![c] = [state |-> "pending", req |-> net[c].req]]
          /\ posts' = [posts EXCEPT ![c] = @ + 1]
          /\ UNCHANGED <<llm, pc>>
     ELSE /\ llm' = [llm EXCEPT ![c] = callLLM(AwaitedPost(c))]
          /\ pc' = [pc EXCEPT ![c] = "awaitCallLLM"]
          /\ UNCHANGED <<net, posts>>
  /\ UNCHANGED <<env, config, gen, args, prompt, outcome, parses, fallbacks>>

\* callLLM resumes after its await and returns or throws (lines 50-54)
CallLLMResumes(c) ==
  /\ pc[c] = "awaitPost"
  /\ net[c].state = "settled"
  /\ llm' = [llm EXCEPT ![c] = callLLM(AwaitedPost(c))]
  /\ pc' = [pc EXCEPT ![c] = "awaitCallLLM"]
  /\ UNCHANGED <<env, config, gen, args, prompt, net, outcome, posts, parses,
                 fallbacks>>

\* the generator resumes after `await this.callLLM(prompt)` and settles
GeneratorResumes(c) ==
  /\ pc[c] = "awaitCallLLM"
  /\ LET r == GeneratorResult(gen[c], args[c], llm[c])
     IN  /\ outcome' = [outcome EXCEPT ![c] = [kind |-> r.kind, v |-> r.v]]
         /\ parses' = [parses EXCEPT ![c] = @ + r.parses]
         /\ fallbacks' = [fallbacks EXCEPT ![c] = @ + r.fallbacks]
  /\ pc' = [pc EXCEPT ![c] = "done"]
  /\ UNCHANGED <<env, config, gen, args, prompt, net, llm, posts>>

\* the caller has taken the outcome; nothing of the call is kept
CallEnds(c) ==
  /\ pc[c] = "done"
  /\ pc' = [pc EXCEPT ![c] = "idle"]
  /\ gen' = [gen EXCEPT ![c] = "none"]
  /\ args' = [args EXCEPT ![c] = NoArgs]
  /\ prompt' = [prompt EXCEPT ![c] = ""]
  /\ net' = [net EXCEPT ![c] = NoRequest]
  /\ llm' = [llm EXCEPT ![c] = Unsettled]
  /\ outcome' = [outcome EXCEPT ![c] = NoOutcome]
  /\ posts' = [posts EXCEPT ![c] = 0]
  /\ parses' = [parses EXCEPT ![c] = 0]
  /\ fallbacks' = [fallbacks EXCEPT ![c] = 0]
  /\ UNCHANGED <<env, config>>

\* one caller at a time, every argument and every reply
Next ==
  \/ \E g \in Generators : \E a \in ArgsOf(g) : Invoke(1, g, a)
  \/ \E http \in HttpReplies : GatewaySettles(1, http)
  \/ CallLLMResumes(1)
  \/ GeneratorResumes(1)
  \/ CallEnds(1)

Spec == Init /\ [][Next]_vars

\* NumCalls callers at once, a few arguments and replies, every environment
NextConcurrent ==
  \E c \in Calls :
    \/ \E g \in Generators : \E a \in FewArgsOf(g) : Invoke(c, g, a)
    \/ \E http \in FewHttpReplies : GatewaySettles(c, http)
    \/ CallLLMResumes(c)
    \/ GeneratorResumes(c)
    \/ CallEnds(c)

InitConcurrent == InitFor(Envs)

SpecConcurrent == InitConcurrent /\ [][NextConcurrent]_vars

-----------------------------------------------------------------------------
(* What the properties speak of.                                           *)

Done(c) == pc[c] = "done"
Returned(c, v) == outcome[c] = [kind |-> "returned", v |-> v]
Raised(c) == outcome[c] = [kind |-> "threw", v |-> GenerationUnavailable]

\* the HTTP call of c came back with a success status
HttpOk(c) == ~AxiosRejects(net[c].http)

\* what the reply of c carries at choices[0].message.content
ReplyContent(c) == ContentAt(net[c].http.data)

\* the reply of c carries a completion text there
CarriesText(c) == HttpOk(c) /\ IsText(ReplyContent(c))

\* the elements of an array-valued property of an object (<<>> otherwise)
Elements(v, k) ==
  IF v.t = "object" /\ GetProp(v, k).t = "array" THEN GetProp(v, k).a ELSE <<>>

IsArrayAt(v, k) == v.t = "object" /\ GetProp(v, k).t = "array"

Range(f) == {f[i] : i \in DOMAIN f}

\* the ids of the topics of the modules of a curriculum
TopicIds(v) ==
  UNION {{GetProp(t, "id") : t \in Range(Elements(m, "topics"))} :
           m \in Range(Elements(v, "modules"))}

\* the requested number of weeks of a generateCurriculum call
RequestedWeeks(c) == IF args[c].weeks = Undefined THEN 12 ELSE args[c].weeks.n

CurriculumFallbackDone(c) ==
  Done(c) /\ gen[c] = "generateCurriculum" /\ fallbacks[c] = 1

-----------------------------------------------------------------------------
(* The schemas of the generated values (types/index.ts and the data model). *)

LevelEnum == {Str("beginner"), Str("intermediate"), Str("advanced")}
ResourceTypeEnum == {Str("book"), Str("course"), Str("article"), Str("video")}

IsString(v) == v.t = "string"
IsNumber(v) == v.t = "number"
IsStringArray(v) == v.t = "array" /\ \A x \in Range(v.a) : IsString(x)

IsSubtopic(v) ==
  /\ v.t = "object"
  /\ \A k \in {"id", "title", "description"} : IsString(GetProp(v, k))
  /\ IsNumber(GetProp(v, "estimatedHours")) /\ GetProp(v, "estimatedHours").n >= 0

IsTopic(v) ==
  /\ v.t = "object"
  /\ \A k \in {"id", "title", "description"} : IsString(GetProp(v, k))
  /\ GetProp(v, "difficulty") \in LevelEnum
  /\ IsArrayAt(v, "subtopics")
  /\ \A x \in Range(Elements(v, "subtopics")) : IsSubtopic(x)

IsModule(v) ==
  /\ v.t = "object"
  /\ \A k \in {"id", "title", "description"} : IsString(GetProp(v, k))
  /\ IsNumber(GetProp(v, "estimatedWeeks"))
  /\ IsArrayAt(v, "topics")
  /\ \A x \in Range(Elements(v, "topics")) : IsTopic(x)

IsWeeklyPlan(v) ==
  /\ v.t = "object"
  /\ IsNumber(GetProp(v, "week")) /\ IsNumber(GetProp(v, "estimatedHours"))
  /\ IsStringArray(GetProp(v, "topics")) /\ IsStringArray(GetProp(v, "goals"))

IsCurriculum(v) ==
  /\ IsArrayAt(v, "modules") /\ IsArrayAt(v, "weeklyRoadmap")
  /\ \A x \in Range(Elements(v, "modules")) : IsModule(x)
  /\ \A x \in Range(Elements(v, "weeklyRoadmap")) : IsWeeklyPlan(x)

IsLesson(v) ==
  /\ v.t = "object"
  /\ \A k \in {"title", "objective", "content", "practiceTask"} :
       IsString(GetProp(v, k))
  /\ IsStringArray(GetProp(v, "examples"))

IsQuestion(v) ==
  /\ v.t = "object"
  /\ \A k \in {"id", "text", "explanation"} : IsString(GetProp(v, k))
  /\ IsStringArray(GetProp(v, "options")) /\ Len(GetProp(v, "options").a) = 4
  /\ IsNumber(GetProp(v, "correctAnswer")) /\ GetProp(v, "correctAnswer").n \in 0..3

IsQuiz(v) == v.t = "array" /\ \A x \in Range(v.a) : IsQuestion(x)

IsResource(v) ==
  /\ v.t = "object"
  /\ GetProp(v, "type") \in ResourceTypeEnum
  /\ GetProp(v, "level") \in LevelEnum
  /\ \A k \in {"title", "reason", "description"} : IsString(GetProp(v, k))
  /\ \A k \in {"authorOrSource", "estimatedTime", "url"} :
       HasKey(v, k) => IsString(GetProp(v, k))

IsResources(v) == v.t = "array" /\ \A x \in Range(v.a) : IsResource(x)

IsProject(v) ==
  /\ v.t = "object"
  /\ \A k \in {"title", "description"} : IsString(GetProp(v, k))
  /\ \A k \in {"requirements", "techStack", "skillsDemonstrated"} :
       IsStringArray(GetProp(v, k))
  /\ GetProp(v, "difficulty") \in LevelEnum

IsProjects(v) == v.t = "array" /\ \A x \in Range(v.a) : IsProject(x)

MatchesSchema(g, v) ==
  CASE g = "generateCurriculum" -> IsCurriculum(v)
    [] g = "generateLesson" -> IsLesson(v)
    [] g = "generateQuiz" -> IsQuiz(v)
    [] g = "generateResources" -> IsResources(v)
    [] g = "generateProjects" -> IsProjects(v)

-----------------------------------------------------------------------------
(* Properties.                                                             *)

\* C1: for each generator and all arguments, when the HTTP call succeeds and
\* the text it carries does not parse as JSON, the generator returns exactly
\* its fallback method's value for the same arguments and raises nothing.
C1_ParseFailureYieldsFallback ==
  \A c \in Calls :
    Done(c) /\ CarriesText(c) /\ JSONParse(ReplyContent(c)).threw
      => /\ Returned(c, Fallback(gen[c], args[c]))
         /\ fallbacks[c] = 1

\* the end-to-end scenario: Python, beginner, 5 hours, 12 weeks, a reply of
\* prose: twelve weeks, one module called "Python Fundamentals"
C1_Witness ==
  \E c \in Calls :
    /\ Done(c) /\ gen[c] = "generateCurriculum"
    /\ args[c] = [skill |-> "Python", level |-> "beginner", timePerWeek |-> 5,
                  weeks |-> Undefined]
    /\ ReplyContent(c) = Text(<<"Sure", ",", "[">>)
    /\ outcome[c].kind = "returned"
    /\ Len(Elements(outcome[c].v, "weeklyRoadmap")) = 12
    /\ Len(Elements(outcome[c].v, "modules")) = 1
    /\ GetProp(Elements(outcome[c].v, "modules")[1], "title") = Str("Python Fundamentals")

\* C2: for each generator, when the HTTP request errors or comes back with a
\* non-success status, the generator raises the uniform failure, its fallback
\* is not called and no value is returned.
C2_GatewayFailureRaises ==
  \A c \in Calls :
    Done(c) /\ AxiosRejects(net[c].http)
      => Raised(c) /\ fallbacks[c] = 0 /\ parses[c] = 0

C2_Witness ==
  \E c \in Calls :
    /\ Done(c) /\ gen[c] = "generateResources"
    /\ net[c].http.kind = "response" /\ net[c].http.status = 500
    /\ Raised(c)

\* C3: for weeks in 1..52 the curriculum fallback has exactly `weeks` roadmap
\* entries, numbered 1, 2, ..., weeks in order, and every topic id an entry
\* refers to is the id of a topic of a module of the same curriculum.
C3_FallbackRoadmap ==
  \A c \in Calls :
    CurriculumFallbackDone(c) /\ RequestedWeeks(c) \in 1..52
      => LET roadmap == Elements(outcome[c].v, "weeklyRoadmap")
         IN  /\ outcome[c].kind = "returned"
             /\ IsArrayAt(outcome[c].v, "weeklyRoadmap")
             /\ Len(roadmap) = RequestedWeeks(c)
             /\ \A i \in 1..Len(roadmap) :
                  /\ GetProp(roadmap[i], "week") = Num(i)
                  /\ Elements(roadmap[i], "topics") # <<>>
                  /\ \A id \in Range(Elements(roadmap[i], "topics")) :
                       id \in TopicIds(outcome[c].v)

C3_Witness ==
  \E c \in Calls :
    /\ CurriculumFallbackDone(c) /\ args[c].weeks = Num(52)
    /\ Len(Elements(outcome[c].v, "weeklyRoadmap")) = 52
    /\ GetProp(Elements(outcome[c].v, "weeklyRoadmap")[52], "week") = Num(52)

\* C4: a success response without a completion text at
\* choices[0].message.content is a Gateway failure: the generator raises the
\* uniform failure and returns nothing.
C4_NoTextIsGatewayFailure ==
  \A c \in Calls :
    Done(c) /\ HttpOk(c) /\ ~IsText(ReplyContent(c)) => Raised(c)

\* C5: a call sends exactly one POST, parses at most once and only after the
\* POST has settled, ends in exactly one of parsed value, fallback value or
\* the uniform failure, and raises only when the Gateway call failed.
C5_OneRequestThreeWays ==
  \A c \in Calls :
    /\ posts[c] = IF pc[c] = "idle" THEN 0 ELSE 1
    /\ pc[c] # "idle" => net[c].req.body.messages[1].content = prompt[c]
    /\ parses[c] <= 1 /\ fallbacks[c] <= parses[c]
    /\ parses[c] = 1 => net[c].state = "settled" /\ Done(c)
    /\ outcome[c] # NoOutcome <=> Done(c)
    /\ Done(c) =>
         \/ outcome[c].kind = "returned" /\ parses[c] = 1 /\ fallbacks[c] = 0
         \/ /\ Returned(c, Fallback(gen[c], args[c]))
            /\ parses[c] = 1 /\ fallbacks[c] = 1
         \/ /\ Raised(c) /\ parses[c] = 0 /\ fallbacks[c] = 0
            /\ ~CarriesText(c)

C5_Witness ==
  \E c \in Calls :
    /\ Done(c) /\ posts[c] = 1 /\ net[c].http = NetworkError /\ Raised(c)

\* C6: when the reply text parses as JSON the generator returns the parsed
\* value as it is and does not call the fallback, whatever the value's shape:
\* a reply that is the JSON text of a value comes back as that value.
C6_ParsedValuePassesThrough ==
  \A c \in Calls :
    /\ Done(c) /\ CarriesText(c) /\ ~JSONParse(ReplyContent(c)).threw
         => Returned(c, JSONParse(ReplyContent(c)).v) /\ fallbacks[c] = 0
    /\ \A v \in SampleValues :
         Done(c) /\ HttpOk(c) /\ ReplyContent(c) = Text(Stringify(v))
           => Returned(c, v) /\ fallbacks[c] = 0

\* generateQuiz("Loops", ...) with a reply of five well-formed questions
C6_Witness ==
  \E c \in Calls :
    /\ Done(c) /\ gen[c] = "generateQuiz" /\ args[c].lessonTitle = "Loops"
    /\ ReplyContent(c) = Text(Stringify(FiveQuestions))
    /\ Returned(c, FiveQuestions) /\ IsQuiz(outcome[c].v)
    /\ Len(outcome[c].v.a) = 5 /\ fallbacks[c] = 0

\* C7 as stated: every curriculum generateCurriculum returns, parsed or
\* fallback, has as many roadmap entries as weeks were requested (12 when
\* the argument is omitted).
C7_RoadmapLengthAlways ==
  \A c \in Calls :
    /\ Done(c) /\ gen[c] = "generateCurriculum" /\ outcome[c].kind = "returned"
    /\ RequestedWeeks(c) >= 1
    /\ IsArrayAt(outcome[c].v, "modules") /\ IsArrayAt(outcome[c].v, "weeklyRoadmap")
    => Len(Elements(outcome[c].v, "weeklyRoadmap")) = RequestedWeeks(c)

\* C7 amended: on the fallback path, for every integer weeks >= 0 (12 when
\* omitted), the returned roadmap has exactly `weeks` entries.
C7_RoadmapLengthOnFallback ==
  \A c \in Calls :
    CurriculumFallbackDone(c) /\ RequestedWeeks(c) >= 0
      => /\ IsArrayAt(outcome[c].v, "weeklyRoadmap")
         /\ Len(Elements(outcome[c].v, "weeklyRoadmap")) = RequestedWeeks(c)

C7_Witness ==
  \E c \in Calls :
    /\ CurriculumFallbackDone(c) /\ args[c].weeks = Num(MaxWeeks)
    /\ Len(Elements(outcome[c].v, "weeklyRoadmap")) = MaxWeeks

\* C8: every fallback value matches its domain's schema, enums included: the
\* curriculum fallback's topic difficulty is beginner, intermediate or
\* advanced for any `level`, the quiz fallback's question has 4 options and a
\* correctAnswer in 0..3, the resource fallback is of an enum type with url "#".
C8_FallbackMatchesSchema ==
  \A c \in Calls :
    Done(c) /\ CarriesText(c) /\ fallbacks[c] = 1
      => /\ MatchesSchema(gen[c], outcome[c].v)
         /\ gen[c] = "generateResources"
              => GetProp(outcome[c].v.a[1], "url") = Str("#")
         /\ gen[c] = "generateQuiz" => Len(outcome[c].v.a) = 1

\* C9: with calls interleaved on the one instance, the outcome of each is the
\* outcome its own generator, arguments and Gateway reply give, and the
\* Gateway configuration stays what the constructor read from the environment.
C9_CallsAreIndependent ==
  /\ apiUrl = EnvOr(env.AI_MODEL_API_URL, DefaultApiUrl)
  /\ apiKey = EnvOr(env.AI_MODEL_API_KEY, "")
  /\ modelName = EnvOr(env.AI_MODEL_NAME, DefaultModelName)
  /\ \A c \in Calls :
       Done(c) =>
         LET r == GeneratorResult(gen[c], args[c], callLLM(net[c].http))
         IN  outcome[c] = [kind |-> r.kind, v |-> r.v]

\* two calls of one generator with the same arguments, both finished, with
\* different replies and so different outcomes
C9_Witness ==
  \E c, d \in Calls :
    /\ c # d /\ Done(c) /\ Done(d)
    /\ gen[c] = gen[d] /\ args[c] = args[d]
    /\ net[c].http # net[d].http
    /\ outcome[c].kind = "returned" /\ outcome[d].kind = "returned"
    /\ fallbacks[c] = 1 /\ fallbacks[d] = 0

\* C10: two calls of the same generator with the same arguments send the same
\* prompt, and when the Gateway hands both the same raw text they settle to
\* the same result, parsed or fallback.
C10_SameInputsSameResult ==
  \A c, d \in Calls :
    pc[c] # "idle" /\ pc[d] # "idle" /\ gen[c] = gen[d] /\ args[c] = args[d]
      => /\ prompt[c] = prompt[d]
         /\ net[c].req = net[d].req
         /\ Done(c) /\ Done(d) /\ CarriesText(c) /\ CarriesText(d)
              /\ ReplyContent(c) = ReplyContent(d)
              => outcome[c] = outcome[d]

C10_Witness ==
  \E c, d \in Calls :
    /\ c # d /\ Done(c) /\ Done(d)
    /\ gen[c] = "generateLesson" /\ gen[d] = "generateLesson" /\ args[c] = args[d]
    /\ ReplyContent(c) = Text(<<"Sure">>) /\ ReplyContent(d) = Text(<<"Sure">>)
    /\ Returned(c, getFallbackLesson("Loops")) /\ Returned(d, getFallbackLesson("Loops"))

====
